---- MODULE Spec2Model ----
(***************************************************************************)
(* A model of the event-driven finite state machine of xgfone/go-fsm.      *)
(*                                                                         *)
(* The machine (struct FSM) is the record held by the variable fsm; every  *)
(* method of FSM is an operator from a machine to a machine, and every     *)
(* exported operation is one action.  SendEvent runs to completion on the  *)
(* caller's goroutine, so it is one action; what its action and callbacks  *)
(* see while it runs is written to the trace variable log.                 *)
(*                                                                         *)
(* Actions (type Action) are caller code.  An invocation of an action is   *)
(* modelled by its outcome: the boolean it returns and the SetEvent call   *)
(* it makes on the machine, if any; each invocation picks an outcome       *)
(* freely, which covers stateful actions.  Callbacks only observe.         *)
(***************************************************************************)
EXTENDS Naturals, Sequences, FiniteSets, TLC

VARIABLES fsm, op, err, log

vars == <<fsm, op, err, log>>

----------------------------------------------------------------------------
(* Bounds of the model *)

\* The longest transition table the model builds.
MaxTable == 2
\* The most chain links one SendEvent call is followed through.
MaxLinks == 2
\* The most transitions passed to one AddTransitions call.
MaxArgs == 2
\* The most SetEvent calls the actions of one call of SendEvent make, for
\* the calls whose actions are taken to stop chaining.
MaxChains == 2

\* The number of transitions added to the two machines that are compared.
MaxAdded == 3

----------------------------------------------------------------------------
(* Values *)

\* State("") and Event(""): the zero values, which the API rejects.
NoState == ""
NoEvent == ""

States == {"StateFoo", "StateBar"}
Events == {"EventFoo", "EventBar"}

\* The payloads: NilData is Go's nil, SendData what callers hand to
\* SendEvent, ChainData what is handed to SetEvent.
NilData == "nil"
SendData == {"d1"}
ChainData == {"d2"}

\* Transition.Action: nil, or an action function.
NilAction == "nil"
Actions == {"act"}

\* The transitions a caller may hand to AddTransitions (any field may be
\* left at its zero value).
Transition == [Event : Events \cup {NoEvent}, Source : States \cup {NoState},
               Target : States \cup {NoState}, Action : Actions \cup {NilAction}]

NewTransition(source, target, event, action) ==
    [Event |-> event, Source |-> source, Target |-> target, Action |-> action]

\* The transitions with all three of source, target and event set.
Valid == {t \in Transition :
             t.Source # NoState /\ t.Target # NoState /\ t.Event # NoEvent}

\* The rules the machines of Spec are built from: those of the two
\* (source, event) pairs of the package's examples, with either target, with
\* and without an action.
Rules == {t \in Valid :
             \/ t.Source = "StateFoo" /\ t.Event = "EventBar"
             \/ t.Source = "StateBar" /\ t.Event = "EventFoo"}

\* The states and rules of the machines whose termination states are
\* computed: three states, as in A--x-->B, B--y-->C.
GraphStates == {"A", "B", "C"}

GraphRules ==
    [Event : {"x", "y"}, Source : GraphStates, Target : GraphStates,
     Action : {NilAction}]

\* The rules the tables of SpecTable are built from: for each of three
\* (source, event) pairs, one to StateBar without an action and one to
\* StateFoo with an action.
TableRules ==
    {t \in Valid :
        /\ ~(t.Source = "StateBar" /\ t.Event = "EventBar")
        /\ \/ t.Target = "StateBar" /\ t.Action = NilAction
           \/ t.Target = "StateFoo" /\ t.Action # NilAction}

\* The states the machines of Spec register a per-state callback for: an
\* exit callback for one state, an enter callback for the other, so that
\* each state is seen with and without a callback of either kind.
ExitKeys == {"StateFoo"}
EnterKeys == {"StateBar"}

\* Transitions AddTransitions rejects: one per field left empty.
Malformed ==
    {NewTransition(NoState, "StateBar", "EventBar", NilAction),
     NewTransition("StateFoo", NoState, "EventBar", NilAction),
     NewTransition("StateFoo", "StateBar", NoEvent, NilAction)}

\* The error values SendEvent returns: nil, or a TransitionError.
Nil == [isNil |-> TRUE, Event |-> NoEvent, Source |-> NoState, Target |-> NoState]

TransitionError(event, source, target) ==
    [isNil |-> FALSE, Event |-> event, Source |-> source, Target |-> target]

TEIsSuspended(e) == e.Source # NoState

TEIsNoTransition(e) == e.Source # NoState

IsSuspended(e) == IF e.isNil THEN FALSE ELSE TEIsSuspended(e)

IsNoTransition(e) == IF e.isNil THEN FALSE ELSE TEIsNoTransition(e)

----------------------------------------------------------------------------
(* The machine *)

\* New(): no callbacks, no transitions, the zero current state, no pending
\* chained event.  exit, enter and transition say whether the global
\* callback is set; exitStates and enterStates are the key sets of the maps.
New ==
    [exit |-> FALSE, enter |-> FALSE, transition |-> FALSE,
     exitStates |-> {}, enterStates |-> {},
     transitions |-> <<>>,
     current |-> NoState, event |-> NoEvent, data |-> NilData]

\* Reset that hands the two maps over without emptying them.
Reset_NoDelete(f) ==
    [New EXCEPT !.exitStates = f.exitStates, !.enterStates = f.enterStates]

\* Reset(): the maps are emptied and kept, every other field is zeroed.
Reset(f) == New

SetCurrent(f, current) == [f EXCEPT !.current = current]

Current(f) == f.current

Transitions(f) == f.transitions

SetEvent(f, event, data) == [f EXCEPT !.event = event, !.data = data]

OnEnter(f, fn) == [f EXCEPT !.enter = fn]

OnExit(f, fn) == [f EXCEPT !.exit = fn]

OnTransition(f, fn) == [f EXCEPT !.transition = fn]

OnEnterState(f, state) == [f EXCEPT !.enterStates = @ \cup {state}]

OnExitState(f, state) == [f EXCEPT !.exitStates = @ \cup {state}]

hasState(ss, s) == \E i \in 1..Len(ss) : ss[i] = s

\* The first loop of Terminations over the transitions ts: the sources and
\* the targets, each state once, in the order of first appearance.
RECURSIVE collectStates(_, _, _)
collectStates(ts, sources, targets) ==
    IF ts = <<>> THEN [sources |-> sources, targets |-> targets]
    ELSE LET t == Head(ts)
         IN collectStates(
                Tail(ts),
                IF hasState(sources, t.Source) THEN sources
                ELSE Append(sources, t.Source),
                IF hasState(targets, t.Target) THEN targets
                ELSE Append(targets, t.Target))

\* Terminations without the second loop: every target is returned.
Terminations_AllTargets(f) == collectStates(Transitions(f), <<>>, <<>>).targets

\* Terminations that collects every target, also one it has already.
Terminations_NoDedup(f) ==
    LET c == collectStates(Transitions(f), <<>>, <<>>)
        targets == [i \in 1..Len(Transitions(f)) |-> Transitions(f)[i].Target]
    IN SelectSeq(targets, LAMBDA state : ~hasState(c.sources, state))

\* Terminations(): the targets that are not among the sources.
Terminations(f) ==
    LET c == collectStates(Transitions(f), <<>>, <<>>)
    IN SelectSeq(c.targets, LAMBDA state : ~hasState(c.sources, state))

\* indexTransition: the position of the first transition for (source, event);
\* 0 stands for Go's -1 (sequences are indexed from 1).
indexTransition(f, source, event) ==
    LET found == {i \in 1..Len(f.transitions) :
                     /\ f.transitions[i].Source = source
                     /\ f.transitions[i].Event = event}
    IN IF found = {} THEN 0
       ELSE CHOOSE i \in found : \A j \in found : i <= j

\* GetTransition(source, event): the transition and ok; the zero Transition
\* and false when there is none.
GetTransition(f, source, event) ==
    LET index == indexTransition(f, source, event)
    IN IF index > 0
       THEN [transition |-> f.transitions[index], ok |-> TRUE]
       ELSE [transition |-> NewTransition(NoState, NoState, NoEvent, NilAction),
             ok |-> FALSE]

\* The validation loop of AddTransitions: the call panics when any
\* transition lacks its source, target or event.
AddTransitionsPanics(ts) ==
    \E i \in 1..Len(ts) :
        ts[i].Source = NoState \/ ts[i].Target = NoState \/ ts[i].Event = NoEvent

\* The transition at which the validation loop panics: the first one that
\* lacks a field; 0 when there is none.
FirstInvalid(ts) ==
    LET bad == {i \in 1..Len(ts) : ts[i] \notin Valid}
    IN IF bad = {} THEN 0
       ELSE CHOOSE i \in bad : \A j \in bad : i <= j

\* addTransition that appends whatever the table holds.
addTransition_Append(f, t) == [f EXCEPT !.transitions = Append(@, t)]

\* addTransition that moves a replaced entry to the end of the table.
addTransition_MoveToEnd(f, t) ==
    LET index == indexTransition(f, t.Source, t.Event)
    IN IF index > 0
       THEN [f EXCEPT !.transitions =
                Append(SelectSeq(@, LAMBDA x : ~(x.Source = t.Source /\ x.Event = t.Event)), t)]
       ELSE [f EXCEPT !.transitions = Append(@, t)]

\* One round of the second loop of AddTransitions: replace in place, or append.
addTransition(f, t) ==
    LET index == indexTransition(f, t.Source, t.Event)
    IN IF index > 0
       THEN [f EXCEPT !.transitions[index] = t]
       ELSE [f EXCEPT !.transitions = Append(@, t)]

RECURSIVE addTransitionsFrom(_, _)
addTransitionsFrom(f, ts) ==
    IF ts = <<>> THEN f
    ELSE addTransitionsFrom(addTransition(f, Head(ts)), Tail(ts))

\* AddTransitions(transitions...) for a call that does not panic.
AddTransitions(f, ts) == addTransitionsFrom(f, ts)

----------------------------------------------------------------------------
(* Dispatch *)

\* A run of SendEvent is followed as a record w: the machine w.f, the number
\* w.link of the loop iteration under way, and the trace w.log of what has
\* happened so far.  A trace entry tells what happened (name), with which
\* arguments (a, b), in which iteration (link), and the value Current() had
\* at that moment (cur).
Entry(w, name, a, b) ==
    [link |-> w.link, name |-> name, a |-> a, b |-> b, cur |-> Current(w.f)]

Trace(w, name, a, b) == [w EXCEPT !.log = Append(@, Entry(w, name, a, b))]

\* What one invocation of an action does: it may call fsm.SetEvent(ev, data),
\* and it returns ret.
NoSetEvent == [set |-> FALSE, ev |-> NoEvent, data |-> NilData]

Outcomes ==
    [ret : BOOLEAN, set : {TRUE}, ev : Events, data : ChainData]
    \cup [ret : BOOLEAN, set : {FALSE}, ev : {NoEvent}, data : {NilData}]

BoolName(b) == IF b THEN "true" ELSE "false"

\* t.Action(f, data) with outcome o.
CallAction(w, t, data, o) ==
    LET w1 == Trace(w, "action", t.Action, data)
        w2 == IF o.set
              THEN Trace([w1 EXCEPT !.f = SetEvent(@, o.ev, o.data)],
                         "SetEvent", o.ev, o.data)
              ELSE w1
    IN Trace(w2, "return", BoolName(o.ret), "")

\* commit without the change of state.
commit_NoSetCurrent(w, current, t) ==
    LET w1 == IF current \in w.f.exitStates
              THEN Trace(w, "exitState", current, "") ELSE w
        w2 == IF w1.f.exit THEN Trace(w1, "exit", current, "") ELSE w1
        w4 == IF t.Target \in w2.f.enterStates
              THEN Trace(w2, "enterState", t.Target, "") ELSE w2
        w5 == IF w4.f.enter THEN Trace(w4, "enter", t.Target, "") ELSE w4
    IN IF w5.f.transition THEN Trace(w5, "transition", current, t.Target) ELSE w5

\* commit with the global exit callback before the per-state one.
commit_GlobalExitFirst(w, current, t) ==
    LET w1 == IF w.f.exit THEN Trace(w, "exit", current, "") ELSE w
        w2 == IF current \in w1.f.exitStates
              THEN Trace(w1, "exitState", current, "") ELSE w1
        w3 == [w2 EXCEPT !.f = SetCurrent(@, t.Target)]
        w4 == IF t.Target \in w3.f.enterStates
              THEN Trace(w3, "enterState", t.Target, "") ELSE w3
        w5 == IF w4.f.enter THEN Trace(w4, "enter", t.Target, "") ELSE w4
    IN IF w5.f.transition THEN Trace(w5, "transition", current, t.Target) ELSE w5

\* commit with the change of state before the exit callbacks.
commit_SetCurrentFirst(w, current, t) ==
    LET w0 == [w EXCEPT !.f = SetCurrent(@, t.Target)]
        w1 == IF current \in w0.f.exitStates
              THEN Trace(w0, "exitState", current, "") ELSE w0
        w2 == IF w1.f.exit THEN Trace(w1, "exit", current, "") ELSE w1
        w4 == IF t.Target \in w2.f.enterStates
              THEN Trace(w2, "enterState", t.Target, "") ELSE w2
        w5 == IF w4.f.enter THEN Trace(w4, "enter", t.Target, "") ELSE w4
    IN IF w5.f.transition THEN Trace(w5, "transition", current, t.Target) ELSE w5

\* commit that fires no callback when a chained event is pending.
commit_SkipWhenChained(w, current, t) ==
    IF w.f.event # NoEvent
    THEN [w EXCEPT !.f = SetCurrent(@, t.Target)]
    ELSE commit_NoSetCurrent([w EXCEPT !.f = SetCurrent(@, t.Target)], current, t)

\* The part of sendEvent after the action let the transition through: the
\* exit callbacks, the change of state, the enter callbacks, the transition
\* callback.
commit(w, current, t) ==
    LET w1 == IF current \in w.f.exitStates
              THEN Trace(w, "exitState", current, "") ELSE w
        w2 == IF w1.f.exit THEN Trace(w1, "exit", current, "") ELSE w1
        w3 == [w2 EXCEPT !.f = SetCurrent(@, t.Target)]
        w4 == IF t.Target \in w3.f.enterStates
              THEN Trace(w3, "enterState", t.Target, "") ELSE w3
        w5 == IF w4.f.enter THEN Trace(w4, "enter", t.Target, "") ELSE w4
    IN IF w5.f.transition THEN Trace(w5, "transition", current, t.Target) ELSE w5

\* matchTransition comparing the source only.
matchTransition_AnyEvent(f, current, event) ==
    LET found == {i \in 1..Len(Transitions(f)) :
                     Transitions(f)[i].Source = current}
    IN IF found = {} THEN 0
       ELSE CHOOSE i \in found : \A j \in found : i <= j

\* The loop of sendEvent over f.Transitions(): the position of the first
\* transition with t.Source == current && t.Event == event, or 0.
matchTransition(f, current, event) ==
    LET found == {i \in 1..Len(Transitions(f)) :
                     /\ Transitions(f)[i].Source = current
                     /\ Transitions(f)[i].Event = event}
    IN IF found = {} THEN 0
       ELSE CHOOSE i \in found : \A j \in found : i <= j

\* sendEvent that fills the error of a suspended transition the wrong way
\* round.
sendEvent_ErrorSwapped(w, event, data, o) ==
    LET current == Current(w.f)
        i == matchTransition(w.f, current, event)
    IN IF i = 0
       THEN [w |-> w, err |-> TransitionError(event, NoState, NoState)]
       ELSE LET t == Transitions(w.f)[i]
                w1 == IF t.Action # NilAction THEN CallAction(w, t, data, o) ELSE w
            IN IF t.Action # NilAction /\ ~o.ret
               THEN [w |-> w1, err |-> TransitionError(event, t.Target, t.Source)]
               ELSE [w |-> commit(w1, current, t), err |-> Nil]

\* sendEvent that moves to the target also when the action refuses.
sendEvent_VetoedMoves(w, event, data, o) ==
    LET current == Current(w.f)
        i == matchTransition(w.f, current, event)
    IN IF i = 0
       THEN [w |-> w, err |-> TransitionError(event, NoState, NoState)]
       ELSE LET t == Transitions(w.f)[i]
                w1 == IF t.Action # NilAction THEN CallAction(w, t, data, o) ELSE w
            IN IF t.Action # NilAction /\ ~o.ret
               THEN [w |-> [w1 EXCEPT !.f = SetCurrent(@, t.Target)],
                     err |-> TransitionError(event, t.Source, t.Target)]
               ELSE [w |-> commit(w1, current, t), err |-> Nil]

\* sendEvent that changes the state first and asks the action afterwards.
sendEvent_ActionLast(w, event, data, o) ==
    LET current == Current(w.f)
        i == matchTransition(w.f, current, event)
    IN IF i = 0
       THEN [w |-> w, err |-> TransitionError(event, NoState, NoState)]
       ELSE LET t == Transitions(w.f)[i]
                w1 == commit(w, current, t)
                w2 == IF t.Action # NilAction THEN CallAction(w1, t, data, o) ELSE w1
            IN IF t.Action # NilAction /\ ~o.ret
               THEN [w |-> w2, err |-> TransitionError(event, t.Source, t.Target)]
               ELSE [w |-> w2, err |-> Nil]

\* sendEvent that goes on whatever the action returns.
sendEvent_IgnoreVeto(w, event, data, o) ==
    LET current == Current(w.f)
        i == matchTransition(w.f, current, event)
    IN IF i = 0
       THEN [w |-> w, err |-> TransitionError(event, NoState, NoState)]
       ELSE LET t == Transitions(w.f)[i]
                w1 == IF t.Action # NilAction THEN CallAction(w, t, data, o) ELSE w
            IN [w |-> commit(w1, current, t), err |-> Nil]

\* sendEvent(event, data), where o is the outcome of the action if it is
\* called.  The result is the run after it and the error returned.
sendEvent(w, event, data, o) ==
    LET current == Current(w.f)
        i == matchTransition(w.f, current, event)
    IN IF i = 0
       THEN [w |-> w, err |-> TransitionError(event, NoState, NoState)]
       ELSE LET t == Transitions(w.f)[i]
                w1 == IF t.Action # NilAction THEN CallAction(w, t, data, o) ELSE w
            IN IF t.Action # NilAction /\ ~o.ret
               THEN [w |-> w1, err |-> TransitionError(event, t.Source, t.Target)]
               ELSE [w |-> commit(w1, current, t), err |-> Nil]

\* TestEvent that tries the event out: it dispatches it and tells whether
\* that went through.
TestEvent_BySendEvent(w, event) ==
    LET r == sendEvent(w, event, NilData, [ret |-> TRUE] @@ NoSetEvent)
    IN [w |-> r.w, ok |-> r.err.isNil]

\* TestEvent that misses the first transition of the table (index > 0
\* where Go counts from 0).
TestEvent_SkipsFirst(w, event) ==
    [w |-> w, ok |-> indexTransition(w.f, Current(w.f), event) > 1]

\* TestEvent(event): the run after it, which is the run before it, and the
\* boolean returned.
TestEvent(w, event) ==
    [w |-> w, ok |-> indexTransition(w.f, Current(w.f), event) > 0]

\* The outcomes to follow in one iteration: those of the action, when the
\* matching transition has one.
linkOutcomes(f, event) ==
    LET i == matchTransition(f, Current(f), event)
    IN IF i > 0 /\ Transitions(f)[i].Action # NilAction
       THEN Outcomes
       ELSE {[ret |-> TRUE] @@ NoSetEvent}

\* A loop that never goes on to a chained event.
loopBreaks_Always(r) == TRUE

\* A loop that ends at any error, suspended ones included.
loopBreaks_OnAnyError(r) == r.w.f.event = NoEvent \/ ~r.err.isNil

\* A loop that does not look at the chained event: it ends at a
\* not-suspended error only.
loopBreaks_OnNoTransition(r) == ~r.err.isNil /\ ~IsSuspended(r.err)

\* The condition of SendEvent's loop to break after an iteration.
loopBreaks(r) == r.w.f.event = NoEvent \/ (~r.err.isNil /\ ~IsSuspended(r.err))

\* An iteration that does not clear the chained event.
iteration_NoClear(w, event, data, o) ==
    LET w0 == [w EXCEPT !.link = @ + 1]
        w1 == Trace(w0, "link", event, data)
    IN sendEvent(w1, event, data, o)

\* One iteration of the loop of SendEvent: clear the chained event, then
\* sendEvent.  The iteration is written to the trace as "link".
iteration(w, event, data, o) ==
    LET w0 == [w EXCEPT !.link = @ + 1]
        w1 == Trace([w0 EXCEPT !.f = SetEvent(@, NoEvent, NilData)],
                    "link", event, data)
    IN sendEvent(w1, event, data, o)

\* A loop that keeps the first error it met: err is overwritten only while
\* it is nil.
RECURSIVE sendEventLoop_KeepFirstError(_, _, _, _)
sendEventLoop_KeepFirstError(w, event, data, n) ==
    UNION {
        LET r == iteration(w, event, data, o)
        IN IF loopBreaks(r) THEN {r}
           ELSE IF n <= 1 THEN {}
           ELSE {[w |-> s.w, err |-> IF r.err.isNil THEN s.err ELSE r.err] :
                    s \in sendEventLoop_KeepFirstError(r.w, r.w.f.event,
                                                       r.w.f.data, n - 1)}
        : o \in linkOutcomes(SetEvent(w.f, NoEvent, NilData), event) }

\* The loop of SendEvent from an iteration on: the set of results
\* [w, err] the call can return with, over the outcomes of the actions it
\* calls.  Only runs of at most n further iterations are followed.
RECURSIVE sendEventLoop(_, _, _, _)
sendEventLoop(w, event, data, n) ==
    UNION {
        IF loopBreaks(r) THEN {r}
        ELSE IF n <= 1 THEN {}
        ELSE sendEventLoop(r.w, r.w.f.event, r.w.f.data, n - 1)
        : r \in {iteration(w, event, data, o) :
                   o \in linkOutcomes(SetEvent(w.f, NoEvent, NilData), event)} }

\* SendEvent(event, data) for a non-empty event.
SendEvent(f, event, data) ==
    sendEventLoop([f |-> f, link |-> 0, log |-> <<>>], event, data, MaxLinks)

----------------------------------------------------------------------------
(* The operations of the API as actions *)

\* op tells the call made last: its name, whether it panicked and, for
\* SendEvent and AddTransitions, its arguments; err and log are what the
\* last SendEvent returned and traced.  The calls that return nothing and
\* cannot panic are all told as "call".
Called(name) == [name |-> name, panic |-> FALSE]

Panicked(name) == [name |-> name, panic |-> TRUE]

Init ==
    /\ fsm = New
    /\ op = Called("call")
    /\ err = Nil
    /\ log = <<>>

DoReset ==
    /\ fsm' = Reset(fsm)
    /\ op' = Called("call")
    /\ err' = Nil /\ log' = <<>>

\* SetCurrent without the check of its argument.
DoSetCurrent_NoCheck ==
    \E current \in States \cup {NoState} :
        /\ fsm' = [fsm EXCEPT !.current = current]
        /\ op' = Called("call")
        /\ err' = Nil /\ log' = <<>>

DoSetCurrent ==
    \E current \in States \cup {NoState} :
        /\ IF current = NoState
           THEN fsm' = fsm /\ op' = Panicked("SetCurrent")
           ELSE fsm' = SetCurrent(fsm, current) /\ op' = Called("call")
        /\ err' = Nil /\ log' = <<>>

DoSetEvent ==
    \E event \in Events, data \in ChainData :
        /\ fsm' = SetEvent(fsm, event, data)
        /\ op' = Called("call")
        /\ err' = Nil /\ log' = <<>>

DoOnEnter ==
    /\ fsm' = OnEnter(fsm, TRUE)
    /\ op' = Called("call")
    /\ err' = Nil /\ log' = <<>>

DoOnExit ==
    /\ fsm' = OnExit(fsm, TRUE)
    /\ op' = Called("call")
    /\ err' = Nil /\ log' = <<>>

DoOnTransition ==
    /\ fsm' = OnTransition(fsm, TRUE)
    /\ op' = Called("call")
    /\ err' = Nil /\ log' = <<>>

DoOnEnterState ==
    \E state \in EnterKeys :
        /\ fsm' = OnEnterState(fsm, state)
        /\ op' = Called("call")
        /\ err' = Nil /\ log' = <<>>

DoOnExitState ==
    \E state \in ExitKeys :
        /\ fsm' = OnExitState(fsm, state)
        /\ op' = Called("call")
        /\ err' = Nil /\ log' = <<>>

\* The argument lists of at most n transitions.
ArgLists(n) == UNION {[1..k -> TableRules \cup Malformed] : k \in 1..n}

\* AddTransitions with one loop: it checks each transition right before it
\* stores it, so the transitions ahead of a malformed one are stored.
DoAddTransitions_OneLoop(ts) ==
    /\ IF AddTransitionsPanics(ts)
       THEN LET ahead == SubSeq(ts, 1, FirstInvalid(ts) - 1)
            IN /\ Len(AddTransitions(fsm, ahead).transitions) <= MaxTable
               /\ fsm' = AddTransitions(fsm, ahead)
               /\ op' = Panicked("AddTransitions") @@ [at |-> FirstInvalid(ts)]
       ELSE /\ Len(AddTransitions(fsm, ts).transitions) <= MaxTable
            /\ fsm' = AddTransitions(fsm, ts)
            /\ op' = Called("AddTransitions") @@ [ts |-> ts]
    /\ err' = Nil /\ log' = <<>>

\* AddTransitions(ts...) with the argument list ts.  Of a call that panics,
\* op tells at which transition of the list (at).
DoAddTransitions(ts) ==
    /\ IF AddTransitionsPanics(ts)
       THEN /\ fsm' = fsm
            /\ op' = Panicked("AddTransitions") @@ [at |-> FirstInvalid(ts)]
       ELSE /\ Len(AddTransitions(fsm, ts).transitions) <= MaxTable
            /\ fsm' = AddTransitions(fsm, ts)
            /\ op' = Called("AddTransitions") @@ [ts |-> ts]
    /\ err' = Nil /\ log' = <<>>

\* The machines of Spec are built one rule at a time.
DoAddRule == \E t \in Rules \cup Malformed : DoAddTransitions(<<t>>)

\* SendEvent without the check of the event: the empty event is dispatched
\* like any other.
DoSendEvent_NoCheck ==
    \E event \in Events \cup {NoEvent}, data \in SendData :
        \E r \in SendEvent(fsm, event, data) :
            /\ fsm' = r.w.f
            /\ op' = Called("SendEvent") @@
                         [event |-> event, data |-> data,
                          current |-> Current(fsm), pending |-> fsm.event]
            /\ err' = r.err
            /\ log' = r.w.log

\* SendEvent(event, data), for any event, the empty one included.
DoSendEvent ==
    \E event \in Events \cup {NoEvent}, data \in SendData :
        IF event = NoEvent
        THEN /\ fsm' = fsm
             /\ op' = Panicked("SendEvent")
             /\ err' = Nil /\ log' = <<>>
        ELSE \E r \in SendEvent(fsm, event, data) :
                /\ fsm' = r.w.f
                /\ op' = Called("SendEvent") @@
                             [event |-> event, data |-> data,
                              current |-> Current(fsm), pending |-> fsm.event]
                /\ err' = r.err
                /\ log' = r.w.log

\* TestEvent(event), for any event, the empty one included.
DoTestEvent ==
    \E event \in Events \cup {NoEvent} :
        \E r \in {TestEvent([f |-> fsm, link |-> 0, log |-> <<>>], event)} :
            /\ fsm' = r.w.f
            /\ op' = Called("TestEvent") @@ [event |-> event, ok |-> r.ok]
            /\ err' = Nil
            /\ log' = r.w.log

\* AddTransitions with up to MaxArgs transitions in one call.
DoAddMany == \E ts \in ArgLists(MaxArgs) : DoAddTransitions(ts)

Next ==
    \/ DoReset
    \/ DoSetCurrent
    \/ DoSetEvent
    \/ DoOnEnter
    \/ DoOnExit
    \/ DoOnTransition
    \/ DoOnEnterState
    \/ DoOnExitState
    \/ DoAddRule
    \/ DoSendEvent

Spec == Init /\ [][Next]_vars

\* The transition table alone, built by calls of AddTransitions with
\* several transitions each.
NextTable ==
    \/ DoAddMany
    \/ DoReset

SpecTable == Init /\ [][NextTable]_vars

\* Queries between the calls that set the machine up and dispatch events.
NextTest ==
    \/ DoTestEvent
    \/ DoSendEvent
    \/ DoAddRule
    \/ DoSetCurrent
    \/ DoSetEvent
    \/ DoOnExitState
    \/ DoOnTransition

SpecTest == Init /\ [][NextTest]_vars

\* The calls that can follow SetCurrent in the life of a machine: those of
\* SpecTest and Reset.
NextLife ==
    \/ NextTest
    \/ DoReset

SpecLife == Init /\ [][NextLife]_vars

\* Terminations() on the table as it is.
DoTerminations ==
    /\ fsm' = fsm
    /\ op' = Called("Terminations") @@ [states |-> Terminations(fsm)]
    /\ err' = Nil /\ log' = <<>>

DoAddGraphRule == \E t \in GraphRules : DoAddTransitions(<<t>>)

\* The transition graph built rule by rule and asked for its termination
\* states.
NextGraph ==
    \/ DoAddGraphRule
    \/ DoTerminations

SpecGraph == Init /\ [][NextGraph]_vars

\* A machine set up, callbacks included, and reset for reuse.
NextReset ==
    \/ DoReset
    \/ DoSetCurrent
    \/ DoSetEvent
    \/ DoOnEnter
    \/ DoOnExit
    \/ DoOnTransition
    \/ DoOnEnterState
    \/ DoOnExitState
    \/ DoAddRule

SpecReset == Init /\ [][NextReset]_vars

----------------------------------------------------------------------------
(* The loop of SendEvent, one iteration at a time *)

\* A call of SendEvent under way is told by op: pc is "loop" while the loop
\* runs and "return" once it has broken; event and data are the loop's
\* variables of these names.  What the actions of the call do is the
\* caller's: bounded tells whether they call SetEvent at most limit times
\* during the call or as often as they please; chained counts their SetEvent
\* calls and links the iterations of a bounded call.
Running == op.name = "SendEvent" /\ ~op.panic /\ op.pc = "loop"

Done == op.name = "SendEvent" /\ ~op.panic /\ op.pc = "return"

\* SendEvent(event, data) is entered with a non-empty event.
CallSendEvent ==
    /\ ~Running
    /\ \E event \in Events, data \in SendData,
          bounded \in BOOLEAN, limit \in 0..MaxChains :
          /\ bounded \/ limit = 0
          /\ op' = Called("SendEvent") @@
                       [pc |-> "loop", event |-> event, data |-> data,
                        bounded |-> bounded, limit |-> limit,
                        chained |-> 0, links |-> 0]
    /\ fsm' = fsm /\ err' = Nil /\ log' = <<>>

\* The outcomes the action of the next iteration can have.
StepOutcomes ==
    {o \in linkOutcomes(SetEvent(fsm, NoEvent, NilData), op.event) :
        o.set => (~op.bounded \/ op.chained < op.limit)}

\* One iteration of the loop, the break or the assignment to event and data
\* included; log is the trace of this iteration.
LoopIteration ==
    /\ Running
    /\ \E o \in StepOutcomes :
          \E r \in {iteration([f |-> fsm, link |-> 0, log |-> <<>>],
                              op.event, op.data, o)} :
             LET counted == [op EXCEPT
                               !.chained = IF op.bounded /\ o.set THEN @ + 1 ELSE @,
                               !.links = IF op.bounded THEN @ + 1 ELSE @]
             IN /\ fsm' = r.w.f
                /\ err' = r.err
                /\ log' = r.w.log
                /\ op' = IF loopBreaks(r)
                         THEN [counted EXCEPT !.pc = "return"]
                         ELSE [counted EXCEPT !.event = r.w.f.event,
                                              !.data = r.w.f.data]

\* Between two calls of SendEvent the machine is set up.
SetUp ==
    /\ ~Running
    /\ DoAddRule \/ DoSetCurrent \/ DoSetEvent \/ DoReset

NextSteps ==
    \/ SetUp
    \/ CallSendEvent
    \/ LoopIteration

\* The goroutine that called SendEvent goes on running, and the actions and
\* callbacks it calls return: an iteration that can be taken is taken.
SpecSteps == Init /\ [][NextSteps]_vars /\ WF_vars(LoopIteration)

----------------------------------------------------------------------------
(* Two calls of SendEvent on one machine *)

\* Two goroutines call SendEvent on the machine fsm.  op tells both calls:
\* for each goroutine its place in SendEvent (pc), the loop's variables
\* event and data, the current state and the transition sendEvent works
\* with (current, t), and the number of iterations begun (links); err holds
\* the err of each call.  A local variable that is not read again holds its
\* zero value.  locked tells whether the callers wrap SendEvent in
\* a mutex of their own.  start, sent, owner and stolen are history: the
\* machine and the events when the calls were made, the goroutine whose
\* action set the chained event now pending (0: none), and whether a call
\* has cleared or taken a chained event set inside the other.
Procs == {1, 2}

Concurrent == op.name = "concurrent"

NoRule == NewTransition(NoState, NoState, NoEvent, NilAction)

\* The data both goroutines send.
SentData == CHOOSE d \in SendData : TRUE

\* The events of the two calls, one choice for each pair of events: the
\* goroutines run the same code, so which of them sends which is immaterial.
SentEvents ==
    {[p \in Procs |-> IF p = 1 \/ Cardinality(pair) = 1
                      THEN CHOOSE e \in pair : TRUE
                      ELSE CHOOSE e \in pair : e # (CHOOSE x \in pair : TRUE)] :
        pair \in {{a, b} : a, b \in Events}}

\* The two goroutines are started, each with a non-empty event, on a machine
\* that has a current state.
StartCalls ==
    /\ ~Concurrent /\ Current(fsm) # NoState
    /\ \E locked \in BOOLEAN, sent \in SentEvents :
          op' = [name |-> "concurrent", panic |-> FALSE,
                 locked |-> locked, start |-> fsm, sent |-> sent,
                 pc |-> [p \in Procs |-> "call"],
                 event |-> sent,
                 data |-> [p \in Procs |-> SentData],
                 current |-> [p \in Procs |-> NoState],
                 t |-> [p \in Procs |-> NoRule],
                 links |-> [p \in Procs |-> 0],
                 owner |-> 0, stolen |-> FALSE]
    /\ err' = [p \in Procs |-> Nil]
    /\ fsm' = fsm /\ log' = <<>>

\* Goroutine p may be inside SendEvent: with a mutex around the call, only
\* while no other goroutine is inside.
MayRun(p) ==
    \/ op.pc[p] = "clear"
    \/ /\ op.pc[p] = "call"
       /\ op.locked => \A q \in Procs \ {p} : op.pc[q] \in {"call", "return"}

\* A loop that leaves the pending event in place.
Clear_Skip(p) ==
    /\ Concurrent /\ MayRun(p)
    /\ fsm' = fsm
    /\ op' = [op EXCEPT !.pc[p] = "match", !.links[p] = @ + 1]
    /\ UNCHANGED <<err, log>>

\* f.SetEvent("", nil) at the head of the loop, the first time on entering
\* SendEvent.
Clear(p) ==
    /\ Concurrent /\ MayRun(p)
    /\ fsm' = SetEvent(fsm, NoEvent, NilData)
    /\ op' = [op EXCEPT
                !.pc[p] = "match", !.links[p] = @ + 1,
                !.owner = 0,
                !.stolen = @ \/ (fsm.event # NoEvent /\ op.owner \in Procs \ {p})]
    /\ UNCHANGED <<err, log>>

\* sendEvent up to the call of the action: Current() is read, the table is
\* scanned, the action of the transition found is called.  An action chains
\* an event only while its call has begun fewer than MaxLinks iterations.
Match(p) ==
    /\ Concurrent /\ op.pc[p] = "match"
    /\ LET current == Current(fsm)
           i == matchTransition(fsm, current, op.event[p])
       IN IF i = 0
          THEN /\ err' = [err EXCEPT ![p] = TransitionError(op.event[p], NoState, NoState)]
               /\ op' = [op EXCEPT !.pc[p] = "check"]
               /\ fsm' = fsm
          ELSE \E o \in {x \in linkOutcomes(fsm, op.event[p]) :
                             x.set => op.links[p] < MaxLinks} :
                  LET t == Transitions(fsm)[i]
                      w == [f |-> fsm, link |-> op.links[p], log |-> <<>>]
                      w1 == IF t.Action # NilAction
                            THEN CallAction(w, t, op.data[p], o) ELSE w
                      vetoed == t.Action # NilAction /\ ~o.ret
                  IN /\ fsm' = w1.f
                     /\ err' = IF vetoed
                               THEN [err EXCEPT ![p] =
                                        TransitionError(op.event[p], t.Source, t.Target)]
                               ELSE err
                     /\ op' = [op EXCEPT
                                 !.pc[p] = IF vetoed THEN "check" ELSE "commit",
                                 !.current[p] = IF vetoed THEN @ ELSE current,
                                 !.t[p] = IF vetoed THEN @ ELSE t,
                                 !.owner = IF o.set THEN p ELSE @]
    /\ log' = log

\* The rest of sendEvent: the callbacks and SetCurrent(t.Target).
Commit(p) ==
    /\ Concurrent /\ op.pc[p] = "commit"
    /\ fsm' = commit([f |-> fsm, link |-> op.links[p], log |-> <<>>],
                     op.current[p], op.t[p]).f
    /\ err' = [err EXCEPT ![p] = Nil]
    /\ op' = [op EXCEPT !.pc[p] = "check",
                        !.current[p] = NoState, !.t[p] = NoRule]
    /\ log' = log

\* The condition of the loop, read after sendEvent returned.
Check(p) ==
    /\ Concurrent /\ op.pc[p] = "check"
    /\ op' = IF loopBreaks([w |-> [f |-> fsm], err |-> err[p]])
             THEN [op EXCEPT !.pc[p] = "return",
                             !.event[p] = NoEvent, !.data[p] = NilData]
             ELSE [op EXCEPT !.pc[p] = "assign"]
    /\ UNCHANGED <<fsm, err, log>>

\* event, data = f.event, f.data
Assign(p) ==
    /\ Concurrent /\ op.pc[p] = "assign"
    /\ op' = [op EXCEPT
                !.pc[p] = "clear",
                !.event[p] = fsm.event, !.data[p] = fsm.data,
                !.stolen = @ \/ op.owner \in Procs \ {p}]
    /\ UNCHANGED <<fsm, err, log>>

\* The machine is set up before the goroutines start.
SetUpShared ==
    /\ ~Concurrent
    /\ DoAddRule \/ DoSetCurrent

NextConcurrent ==
    \/ SetUpShared
    \/ StartCalls
    \/ \E p \in Procs :
          Clear(p) \/ Match(p) \/ Commit(p) \/ Check(p) \/ Assign(p)

SpecConcurrent == Init /\ [][NextConcurrent]_vars

----------------------------------------------------------------------------
(* The append-only table scanned backwards *)

\* The other implementation of the package keeps every transition added, in
\* the order added, and SendEvent scans the table from its end; it has no
\* chained event.  The same operations are applied to a machine of each
\* implementation: fsm is the machine with the replace-in-place table, op.old
\* the machine with the append-only table, err and log the result and trace
\* of the last SendEvent on the one, op.err and op.log those on the other.
\* op.added is history: every transition added so far, in order.
NewAppendOnly ==
    [exit |-> FALSE, enter |-> FALSE, transition |-> FALSE,
     exitStates |-> {}, enterStates |-> {},
     transitions |-> <<>>,
     initial |-> NoState, current |-> NoState]

\* f.transitions = append(f.transitions, transitions...)
AddTransitionsAppendOnly(f, ts) == [f EXCEPT !.transitions = @ \o ts]

\* A scan from the front of the append-only table.
lastTransition_Forward(f, current, event) ==
    LET found == {i \in 1..Len(Transitions(f)) :
                     /\ Transitions(f)[i].Source = current
                     /\ Transitions(f)[i].Event = event}
    IN IF found = {} THEN 0
       ELSE CHOOSE i \in found : \A j \in found : i <= j

\* The scan of SendEvent from the end of the table: the index of the last
\* transition for (current, event), 0 when there is none.
lastTransition(f, current, event) ==
    LET found == {i \in 1..Len(Transitions(f)) :
                     /\ Transitions(f)[i].Source = current
                     /\ Transitions(f)[i].Event = event}
    IN IF found = {} THEN 0
       ELSE CHOOSE i \in found : \A j \in found : j <= i

\* SendEvent(event, data) of the append-only machine, for a non-empty event,
\* where ret is what the action returns if it is called.
SendEventBackwards(f, event, data, ret) ==
    LET w == [f |-> f, link |-> 1, log |-> <<>>]
        current == Current(f)
        i == lastTransition(f, current, event)
        o == [ret |-> ret] @@ NoSetEvent
    IN IF i = 0
       THEN [w |-> w, err |-> TransitionError(event, NoState, NoState)]
       ELSE LET t == Transitions(f)[i]
                w1 == IF t.Action # NilAction THEN CallAction(w, t, data, o) ELSE w
            IN IF t.Action # NilAction /\ ~ret
               THEN [w |-> w1, err |-> TransitionError(event, t.Source, t.Target)]
               ELSE [w |-> commit(w1, current, t), err |-> Nil]

Paired == "old" \in DOMAIN op

OldMachine == IF Paired THEN op.old ELSE NewAppendOnly

Added == IF Paired THEN op.added ELSE <<>>

\* What op tells after a call made on both machines.
CalledBoth(name, panic, old, added) ==
    [name |-> name, panic |-> panic, old |-> old, added |-> added,
     err |-> Nil, log |-> <<>>]

\* AddTransitions(ts...) on both machines, while no more than MaxAdded
\* transitions have been added.
BothAddTransitions ==
    \E k \in 1..MaxArgs :
      /\ Len(Added) + k <= MaxAdded
      /\ \E ts \in [1..k -> Rules \cup Malformed] :
        /\ IF AddTransitionsPanics(ts)
           THEN /\ fsm' = fsm
                /\ op' = CalledBoth("AddTransitions", TRUE, OldMachine, Added)
           ELSE /\ fsm' = AddTransitions(fsm, ts)
                /\ op' = CalledBoth("AddTransitions", FALSE,
                                    AddTransitionsAppendOnly(OldMachine, ts),
                                    Added \o ts)
        /\ err' = Nil /\ log' = <<>>

\* SetCurrent(current) on both machines.
BothSetCurrent ==
    \E current \in States \cup {NoState} :
        /\ IF current = NoState
           THEN /\ fsm' = fsm
                /\ op' = CalledBoth("SetCurrent", TRUE, OldMachine, Added)
           ELSE /\ fsm' = SetCurrent(fsm, current)
                /\ op' = CalledBoth("SetCurrent", FALSE,
                                    SetCurrent(OldMachine, current), Added)
        /\ err' = Nil /\ log' = <<>>

\* OnTransition(fn) on both machines.
BothOnTransition ==
    /\ fsm' = OnTransition(fsm, TRUE)
    /\ op' = CalledBoth("OnTransition", FALSE, OnTransition(OldMachine, TRUE), Added)
    /\ err' = Nil /\ log' = <<>>

\* SendEvent(event, data) on both machines, with actions that chain no
\* event and return the same on both.
BothSendEvent ==
    \E event \in Events, data \in SendData, ret \in BOOLEAN :
        LET r == iteration([f |-> fsm, link |-> 0, log |-> <<>>],
                           event, data, [ret |-> ret] @@ NoSetEvent)
            old == SendEventBackwards(OldMachine, event, data, ret)
        IN /\ loopBreaks(r)
           /\ fsm' = r.w.f
           /\ err' = r.err
           /\ log' = r.w.log
           /\ op' = [name |-> "SendEvent", panic |-> FALSE,
                     old |-> old.w.f, added |-> Added,
                     err |-> old.err, log |-> old.w.log,
                     event |-> event, data |-> data,
                     current |-> Current(fsm), pending |-> fsm.event]

NextBoth ==
    \/ BothAddTransitions
    \/ BothSetCurrent
    \/ BothOnTransition
    \/ BothSendEvent

SpecBoth == Init /\ [][NextBoth]_vars

----------------------------------------------------------------------------
(* Reading the trace of the last SendEvent *)

\* A SendEvent call has just returned (it did not panic).
Returned == op.name = "SendEvent" /\ ~op.panic

\* The entries of iteration k of the loop (chain link k), in order.
LinkLog(k) == SelectSeq(log, LAMBDA e : e.link = k)

\* The number of chain links the call went through.
NumLinks == Len(SelectSeq(log, LAMBDA e : e.name = "link"))

Named(seq, names) == SelectSeq(seq, LAMBDA e : e.name \in names)

NamesOf(seq) == [i \in 1..Len(seq) |-> seq[i].name]

CallbackNames == {"exitState", "exit", "enterState", "enter", "transition"}

\* The callbacks fired in link k, and everything link k invoked.
CallbacksOf(k) == Named(LinkLog(k), CallbackNames)

InvokedOf(k) == Named(LinkLog(k), CallbackNames \cup {"action"})

\* The event and payload link k processed, and Current() when it started.
LinkEvent(k) == LinkLog(k)[1].a

LinkData(k) == LinkLog(k)[1].b

LinkSource(k) == LinkLog(k)[1].cur

\* The rules of the table for (source, event).  SendEvent leaves the table
\* as it is, so after the call it is still the table the call ran on.
RulesFor(source, event) ==
    {i \in 1..Len(fsm.transitions) :
        /\ fsm.transitions[i].Source = source
        /\ fsm.transitions[i].Event = event}

\* In link k the action was called and returned b / called SetEvent.
ActionReturned(k, b) ==
    \E i \in 1..Len(LinkLog(k)) :
        LinkLog(k)[i].name = "return" /\ LinkLog(k)[i].a = BoolName(b)

ActionChained(k) == Named(LinkLog(k), {"SetEvent"}) # <<>>

ChainedEvent(k) == Named(LinkLog(k), {"SetEvent"})[1].a

ChainedData(k) == Named(LinkLog(k), {"SetEvent"})[1].b

\* The rule link k matched, if any; the link is committed when it matched a
\* rule whose action, if it has one, returned true.
Matched(k) == RulesFor(LinkSource(k), LinkEvent(k)) # {}

RuleOf(k) ==
    fsm.transitions[CHOOSE i \in RulesFor(LinkSource(k), LinkEvent(k)) : TRUE]

Committed(k) ==
    /\ Matched(k)
    /\ RuleOf(k).Action = NilAction \/ ActionReturned(k, TRUE)

\* Every callback a transition from source to target can fire is set.
AllRegistered(source, target) ==
    /\ fsm.exit /\ fsm.enter /\ fsm.transition
    /\ source \in fsm.exitStates
    /\ target \in fsm.enterStates

----------------------------------------------------------------------------
(* Claims *)

\* C1: SendEvent(event, data), called when the table holds a transition for
\* (Current(), event) that has no action, or whose action returns true
\* without requesting a chained event, sets Current() to that transition's
\* target and returns nil.
C1_CommitSetsTarget ==
    Returned =>
        \A i \in RulesFor(op.current, op.event) :
            (\/ fsm.transitions[i].Action = NilAction
             \/ ActionReturned(1, TRUE) /\ ~ActionChained(1))
            => /\ Current(fsm) = fsm.transitions[i].Target
               /\ err = Nil

\* C1 happens: a call went through a transition with an action that
\* returned true and chained nothing, and the state changed.
C1_Witness ==
    /\ Returned
    /\ \E i \in RulesFor(op.current, op.event) :
          /\ fsm.transitions[i].Action # NilAction
          /\ fsm.transitions[i].Target # op.current
    /\ ActionReturned(1, TRUE) /\ ~ActionChained(1)
    /\ Current(fsm) # op.current
    /\ err = Nil

\* C2: SendEvent(event, data), called when the table holds no transition for
\* (Current(), event), leaves Current() unchanged, invokes no action and no
\* callback, and returns a TransitionError whose Event is the submitted
\* event and whose Source and Target are empty.
C2_NoTransition ==
    (Returned /\ RulesFor(op.current, op.event) = {})
    => /\ Current(fsm) = op.current
       /\ NamesOf(log) = <<"link">>
       /\ ~err.isNil
       /\ err.Event = op.event /\ err.Source = NoState /\ err.Target = NoState

\* C2 happens: a machine with rules, with every kind of callback set, was
\* sent an event its current state has no rule for.
C2_Witness ==
    /\ Returned
    /\ RulesFor(op.current, op.event) = {}
    /\ Len(fsm.transitions) > 0
    /\ op.current # NoState
    /\ fsm.exit /\ fsm.enter /\ fsm.transition
    /\ fsm.exitStates # {} /\ fsm.enterStates # {}

\* C3: SendEvent(event, data), called when the transition matching
\* (Current(), event) has an action that returns false without requesting a
\* chained event, leaves Current() unchanged, fires none of the exit, enter
\* or transition callbacks, and returns a TransitionError carrying the
\* submitted event and that transition's source and target.
C3_Suspended ==
    Returned =>
        \A i \in RulesFor(op.current, op.event) :
            (/\ fsm.transitions[i].Action # NilAction
             /\ ActionReturned(1, FALSE) /\ ~ActionChained(1))
            => /\ Current(fsm) = op.current
               /\ Named(log, CallbackNames) = <<>>
               /\ NumLinks = 1
               /\ err = TransitionError(op.event, fsm.transitions[i].Source,
                                        fsm.transitions[i].Target)

\* C3 happens: an action vetoed a transition to another state on a machine
\* with every callback of that transition set.
C3_Witness ==
    /\ Returned
    /\ \E i \in RulesFor(op.current, op.event) :
          /\ fsm.transitions[i].Action # NilAction
          /\ fsm.transitions[i].Target # op.current
          /\ op.current \in fsm.exitStates
          /\ fsm.transitions[i].Target \in fsm.enterStates
    /\ fsm.exit /\ fsm.enter /\ fsm.transition
    /\ ActionReturned(1, FALSE) /\ ~ActionChained(1)
    /\ IsSuspended(err)

\* C4: with per-state exit, global exit, per-state enter, global enter and
\* global transition callbacks all registered, every committed transition
\* invokes each of them exactly once, in exactly that order.
C4_CallbackOrder ==
    Returned =>
        \A k \in 1..NumLinks :
            (Committed(k) /\ AllRegistered(LinkSource(k), RuleOf(k).Target))
            => NamesOf(CallbacksOf(k)) =
                   <<"exitState", "exit", "enterState", "enter", "transition">>

\* C4 happens: a link committed with all five callbacks set.
C4_Witness ==
    /\ Returned
    /\ \E k \in 1..NumLinks :
          Committed(k) /\ AllRegistered(LinkSource(k), RuleOf(k).Target)

\* C5: in a committed transition from S to T the exit callbacks receive S
\* and see Current() = S, the enter callbacks receive T and see
\* Current() = T, the transition callback receives (S, T); the per-state
\* callbacks fired are the one registered for S (exit) and the one
\* registered for T (enter).
C5_CallbackArguments ==
    Returned =>
        \A k \in 1..NumLinks :
            Committed(k) =>
                LET S == LinkSource(k)
                    T == RuleOf(k).Target
                    cbs == CallbacksOf(k)
                IN /\ \A i \in 1..Len(cbs) :
                        /\ cbs[i].name \in {"exitState", "exit"}
                              => cbs[i].a = S /\ cbs[i].cur = S
                        /\ cbs[i].name \in {"enterState", "enter"}
                              => cbs[i].a = T /\ cbs[i].cur = T
                        /\ cbs[i].name = "transition"
                              => cbs[i].a = S /\ cbs[i].b = T
                   /\ (Named(cbs, {"exitState"}) # <<>>) <=> (S \in fsm.exitStates)
                   /\ (Named(cbs, {"enterState"}) # <<>>) <=> (T \in fsm.enterStates)

\* C5 happens: a chained link committed a transition between two different
\* states with all five callbacks set.
C5_Witness ==
    /\ Returned
    /\ NumLinks >= 2
    /\ Committed(2)
    /\ LinkSource(2) # RuleOf(2).Target
    /\ AllRegistered(LinkSource(2), RuleOf(2).Target)
    /\ Len(CallbacksOf(2)) = 5

\* The (source, event) pair a transition is stored under.
KeyOf(t) == <<t.Source, t.Event>>

\* The last transition of the argument list ts for the pair k.
LastFor(ts, k) ==
    ts[CHOOSE i \in 1..Len(ts) :
          /\ KeyOf(ts[i]) = k
          /\ \A j \in 1..Len(ts) : KeyOf(ts[j]) = k => j <= i]

\* The positions of ts at which a pair that table does not hold appears for
\* the first time.
FreshAt(table, ts) ==
    {i \in 1..Len(ts) :
        /\ \A n \in 1..Len(table) : KeyOf(table[n]) # KeyOf(ts[i])
        /\ \A j \in 1..(i - 1) : KeyOf(ts[j]) # KeyOf(ts[i])}

\* C6: after any sequence of AddTransitions calls the transition table
\* holds at most one transition for any (source, event) pair.
C6_OnePerPair ==
    \A i, j \in 1..Len(fsm.transitions) :
        KeyOf(fsm.transitions[i]) = KeyOf(fsm.transitions[j]) => i = j

\* C6 happens: one call added the same pair twice, with different targets,
\* to a table that holds another pair as well.
C6_Witness ==
    /\ op.name = "AddTransitions" /\ ~op.panic
    /\ Len(op.ts) = 2
    /\ KeyOf(op.ts[1]) = KeyOf(op.ts[2])
    /\ op.ts[1].Target # op.ts[2].Target
    /\ Len(fsm.transitions) = 2

\* A step of AddTransitions(ts...) from the table old to the table new that
\* replaces in place or appends, as C7 tells.
ReplaceOrAppendStep ==
    (op'.name = "AddTransitions" /\ ~op'.panic) =>
        LET old == fsm.transitions
            new == fsm'.transitions
            ts == op'.ts
            fresh == FreshAt(old, ts)
        IN /\ Len(new) = Len(old) + Cardinality(fresh)
           /\ \A n \in 1..Len(old) :
                 new[n] = IF \E i \in 1..Len(ts) : KeyOf(ts[i]) = KeyOf(old[n])
                          THEN LastFor(ts, KeyOf(old[n]))
                          ELSE old[n]
           /\ \A i \in fresh :
                 new[Len(old) + Cardinality({j \in fresh : j <= i})]
                     = LastFor(ts, KeyOf(ts[i]))

\* C7: a call AddTransitions(ts...) keeps every entry of the table at its
\* position; an entry whose pair is among ts becomes the rightmost
\* transition of ts for that pair, every other entry is unchanged; the
\* pairs of ts the table did not hold are appended at the end, in the order
\* in which they first appear in ts, each as the rightmost transition of ts
\* for it.
C7_ReplaceOrAppend == [][ReplaceOrAppendStep]_vars

\* C7 happens: one call replaced the first entry of the table, left the
\* second alone, and handed the replaced pair twice.
C7_Witness ==
    /\ op.name = "AddTransitions" /\ ~op.panic
    /\ Len(op.ts) = 2
    /\ KeyOf(op.ts[1]) = KeyOf(op.ts[2])
    /\ op.ts[1] # op.ts[2]
    /\ Len(fsm.transitions) = 2
    /\ fsm.transitions[1] = op.ts[2]

\* What a link that started in state source with event e must leave behind,
\* read off the table and the action's answer: the error it returns and the
\* current state after it.
LinkResult(k) ==
    IF ~Matched(k)
    THEN [err |-> TransitionError(LinkEvent(k), NoState, NoState),
          current |-> LinkSource(k)]
    ELSE IF Committed(k)
    THEN [err |-> Nil, current |-> RuleOf(k).Target]
    ELSE [err |-> TransitionError(LinkEvent(k), RuleOf(k).Source, RuleOf(k).Target),
          current |-> LinkSource(k)]

\* The machine of ExampleFSM_SetEvent: Foo--EventBar-->Bar without an
\* action, Bar--EventFoo-->Foo with an action.
ExampleRules ==
    {NewTransition("StateFoo", "StateBar", "EventBar", NilAction),
     NewTransition("StateBar", "StateFoo", "EventFoo", "act")}

ExampleCall ==
    /\ Returned
    /\ {fsm.transitions[i] : i \in 1..Len(fsm.transitions)} = ExampleRules
    /\ op.current = "StateBar"
    /\ op.event = "EventFoo"
    /\ ActionChained(1) /\ ChainedEvent(1) = "EventBar"
    /\ ActionReturned(1, TRUE)

\* C8: if the action of the transition taken by SendEvent(E1, d1) calls
\* SetEvent(E2, d2) and returns true, the same call goes on to dispatch E2
\* with d2 against the new current state, and Current() and the error
\* returned are those of the last link processed; in the machine of
\* ExampleFSM_SetEvent, SendEvent(EventFoo) from StateBar ends in StateBar
\* and returns nil.
C8_Chaining ==
    /\ (Returned /\ Matched(1) /\ ActionChained(1) /\ ActionReturned(1, TRUE))
       => /\ NumLinks >= 2
          /\ LinkEvent(2) = ChainedEvent(1)
          /\ LinkData(2) = ChainedData(1)
          /\ LinkSource(2) = RuleOf(1).Target
          /\ err = LinkResult(NumLinks).err
          /\ Current(fsm) = LinkResult(NumLinks).current
    /\ ExampleCall => Current(fsm) = "StateBar" /\ err = Nil

\* C8 happens: the call of ExampleFSM_SetEvent.
C8_Witness ==
    /\ ExampleCall
    /\ NumLinks = 2
    /\ LinkData(2) = "d2"

\* The callbacks a committed transition from source to target fires.
ExpectedCallbacks(source, target) ==
    (IF source \in fsm.exitStates THEN <<"exitState">> ELSE <<>>)
    \o (IF fsm.exit THEN <<"exit">> ELSE <<>>)
    \o (IF target \in fsm.enterStates THEN <<"enterState">> ELSE <<>>)
    \o (IF fsm.enter THEN <<"enter">> ELSE <<>>)
    \o (IF fsm.transition THEN <<"transition">> ELSE <<>>)

\* C9: within one SendEvent call each committed link fires its own complete
\* callback sequence, and finishes it before the action or any callback of
\* the next link is invoked: the trace of the call is the links' own
\* traces one after the other, in chain order.
C9_LinksInOrder ==
    Returned =>
        /\ log[1].link = 1 /\ log[1].name = "link"
        /\ \A i \in 1..(Len(log) - 1) :
              IF log[i + 1].name = "link"
              THEN log[i + 1].link = log[i].link + 1
              ELSE log[i + 1].link = log[i].link
        /\ \A k \in 1..NumLinks :
              NamesOf(InvokedOf(k)) =
                  (IF Matched(k) /\ RuleOf(k).Action # NilAction
                   THEN <<"action">> ELSE <<>>)
                  \o (IF Committed(k)
                      THEN ExpectedCallbacks(LinkSource(k), RuleOf(k).Target)
                      ELSE <<>>)

\* C9 happens: a call committed two links, each with callbacks to fire.
C9_Witness ==
    /\ Returned
    /\ NumLinks = 2
    /\ Committed(1) /\ Committed(2)
    /\ Len(CallbacksOf(1)) >= 3
    /\ Len(CallbacksOf(2)) = 5

\* C10: a chained-event request never leaks into an unrelated call: the
\* first link of a call processes the event and payload of the call, every
\* further link those its predecessor's action handed to SetEvent, whatever
\* SetEvent was called with outside the call; and when SendEvent returns, no
\* chained event is pending.
C10_NoStaleEvent ==
    Returned =>
        /\ fsm.event = NoEvent
        /\ LinkEvent(1) = op.event /\ LinkData(1) = op.data
        /\ \A k \in 2..NumLinks :
              /\ ActionChained(k - 1)
              /\ LinkEvent(k) = ChainedEvent(k - 1)
              /\ LinkData(k) = ChainedData(k - 1)

\* C10 happens: SetEvent was called before the call with an event the state
\* reached has a rule for, and the call ended after its own link.
C10_Witness ==
    /\ Returned
    /\ op.pending # NoEvent
    /\ NumLinks = 1
    /\ err = Nil
    /\ RulesFor(Current(fsm), op.pending) # {}

\* Link k matched a rule whose action called SetEvent and returned false.
SuspendedChaining(k) ==
    Matched(k) /\ ActionChained(k) /\ ActionReturned(k, FALSE)

\* C11: if an action calls SetEvent(E2, d2) and then returns false,
\* SendEvent does not return with the suspended result of that link: the
\* link fires no callback and leaves Current() as it was, and the call goes
\* on to dispatch E2 with d2 against that unchanged state.
C11_SuspendedChainGoesOn ==
    Returned =>
        \A k \in 1..NumLinks :
            SuspendedChaining(k)
            => /\ CallbacksOf(k) = <<>>
               /\ \A i \in 1..Len(LinkLog(k)) : LinkLog(k)[i].cur = LinkSource(k)
               /\ k < NumLinks
               /\ LinkEvent(k + 1) = ChainedEvent(k)
               /\ LinkData(k + 1) = ChainedData(k)
               /\ LinkSource(k + 1) = LinkSource(k)

\* C11 happens: the first link was vetoed by an action that chained an
\* event with another payload, and the second link dispatched it from the
\* unchanged state and took its rule to another state.
C11_Witness ==
    /\ Returned
    /\ SuspendedChaining(1)
    /\ NumLinks = 2
    /\ Committed(2)
    /\ LinkData(2) = "d2" /\ LinkData(1) = "d1"
    /\ LinkSource(2) = op.current
    /\ Current(fsm) # op.current
    /\ err = Nil

\* C12: the chain of one SendEvent call ends exactly at the first link that
\* requests no chained event or finds no transition, and the value returned
\* is the result of that last link; the results of earlier links, suspended
\* ones included, are not reported.
C12_ChainEndAndResult ==
    Returned =>
        /\ NumLinks >= 1
        /\ \A k \in 1..(NumLinks - 1) : Matched(k) /\ ActionChained(k)
        /\ ~Matched(NumLinks) \/ ~ActionChained(NumLinks)
        /\ err = LinkResult(NumLinks).err
        /\ Current(fsm) = LinkResult(NumLinks).current

\* C12 happens: the first link was suspended and chained, the last link
\* committed, and the call returned nil.
C12_Witness ==
    /\ Returned
    /\ NumLinks = 2
    /\ SuspendedChaining(1)
    /\ LinkResult(1).err # Nil
    /\ Committed(2)
    /\ err = Nil

\* C13 as claimed: every call of SendEvent returns, whatever its actions do.
C13_AlwaysReturns == Running ~> Done

\* C13: a call of SendEvent whose actions call SetEvent at most limit times
\* returns, after at most one iteration more than the SetEvent calls its
\* actions made.
C13_ReturnsWhenChainingStops ==
    /\ [](((Running \/ Done) /\ op.bounded) => op.links <= op.chained + 1)
    /\ (Running /\ op.bounded) ~> Done

\* C13 happens: a call returned after its actions chained MaxChains events.
C13_Witness ==
    /\ Done
    /\ op.bounded
    /\ op.chained = MaxChains
    /\ op.links = MaxChains + 1

\* The values Current() had from the call to its return, and how often a
\* sequence changes from one element to the next.
CurrentSeq ==
    <<op.current>> \o [i \in 1..Len(log) |-> log[i].cur] \o <<Current(fsm)>>

Changes(seq) == Cardinality({i \in 1..(Len(seq) - 1) : seq[i] # seq[i + 1]})

\* The links that committed a transition, and those among them whose
\* transition leads to another state.
CommittedLinks == {k \in 1..NumLinks : Committed(k)}

Moves == {k \in CommittedLinks : RuleOf(k).Target # LinkSource(k)}

EndedWithNoTransition == ~Matched(NumLinks)

EndedSuspended ==
    /\ Matched(NumLinks)
    /\ RuleOf(NumLinks).Action # NilAction
    /\ ActionReturned(NumLinks, FALSE)

\* C15: IsNoTransition(err) is true exactly when err is the TransitionError
\* SendEvent returns because no rule existed for (current state, event),
\* i.e. its Source and Target are empty; it is false for nil and for a
\* suspended result.
C15_IsNoTransition ==
    Returned =>
        /\ IsNoTransition(err) <=> EndedWithNoTransition
        /\ IsNoTransition(err) <=>
              (~err.isNil /\ err.Source = NoState /\ err.Target = NoState)

\* C16: IsSuspended(err) is true exactly when err is the TransitionError
\* SendEvent returns because a matching rule's action returned false, i.e.
\* its Source is non-empty; it is false for nil and for a NoTransition
\* result; for every non-nil result exactly one of IsSuspended and
\* IsNoTransition is true.
C16_IsSuspended ==
    Returned =>
        /\ IsSuspended(err) <=> EndedSuspended
        /\ IsSuspended(err) <=> (~err.isNil /\ err.Source # NoState)
        /\ ~err.isNil => (IsSuspended(err) <=> ~IsNoTransition(err))

\* A step that is a call of TestEvent leaves the machine as it is and
\* invokes nothing.
TestEventFrameStep ==
    (op'.name = "TestEvent") => fsm' = fsm /\ log' = <<>>

\* C17: TestEvent(event) leaves the current state, the transition table,
\* the callback registry and the pending chained event unchanged and
\* invokes no action and no callback, also when a matching transition with
\* an action exists.
C17_TestEventFrame == [][TestEventFrameStep]_vars

\* C17 happens: TestEvent returned true for a rule with an action, on a
\* machine with callbacks for that rule and a chained event pending.
C17_Witness ==
    /\ op.name = "TestEvent" /\ op.ok
    /\ \E i \in RulesFor(Current(fsm), op.event) :
          fsm.transitions[i].Action # NilAction
    /\ Current(fsm) \in fsm.exitStates
    /\ fsm.transition
    /\ fsm.event # NoEvent

\* What TestEvent returned is whether the table holds a transition for
\* (Current(), event), and it is what GetTransition(Current(), event) tells.
TestEventTellsRule ==
    (op.name = "TestEvent") =>
        LET got == GetTransition(fsm, Current(fsm), op.event)
        IN /\ op.ok <=> (RulesFor(Current(fsm), op.event) # {})
           /\ op.ok <=> got.ok
           /\ got.ok => /\ got.transition.Source = Current(fsm)
                        /\ got.transition.Event = op.event

\* The call of SendEvent just returned ended its first link with
\* NoTransition.
FirstLinkNoTransition ==
    /\ Returned
    /\ NumLinks = 1
    /\ ~err.isNil /\ err.Source = NoState /\ err.Target = NoState

\* A step from TestEvent(event) to SendEvent(event, data) with the same
\* event (a SendEvent that panics was called with the empty event).
TestThenSend ==
    /\ op.name = "TestEvent"
    /\ op'.name = "SendEvent"
    /\ IF op'.panic THEN op.event = NoEvent ELSE op'.event = op.event

\* C18 as claimed: TestEvent(event) returns true exactly when the table
\* holds a transition for (Current(), event), in agreement with
\* GetTransition(Current(), event); and it is false exactly when an
\* immediately following SendEvent(event, data) ends its first link with
\* NoTransition.
C18_TestEventForAnyEvent ==
    /\ []TestEventTellsRule
    /\ [][TestThenSend => (~op.ok <=> FirstLinkNoTransition')]_vars

\* C18: TestEvent(event) returns true exactly when the table holds a
\* transition for (Current(), event), in agreement with
\* GetTransition(Current(), event); for a non-empty event it is false
\* exactly when an immediately following SendEvent(event, data) ends its
\* first link with NoTransition; for the empty event it is false and the
\* SendEvent panics.
C18_TestEvent ==
    /\ []TestEventTellsRule
    /\ [][TestThenSend =>
             IF op.event = NoEvent
             THEN ~op.ok /\ op'.panic
             ELSE ~op.ok <=> FirstLinkNoTransition']_vars

\* C18 happens: TestEvent returned false for an event the current state has
\* no rule for, on a machine that has a rule for it from another state and
\* a rule from the current state for another event.
C18_Witness ==
    /\ op.name = "TestEvent" /\ ~op.ok
    /\ op.event # NoEvent
    /\ \E i \in 1..Len(fsm.transitions) :
          fsm.transitions[i].Event = op.event
    /\ \E i \in 1..Len(fsm.transitions) :
          fsm.transitions[i].Source = Current(fsm)

\* A step that is a call of AddTransitions either panics and leaves the
\* table alone, or was handed well-formed transitions only.
AddTransitionsPanicStep ==
    (op'.name = "AddTransitions") =>
        IF op'.panic
        THEN Transitions(fsm') = Transitions(fsm)
        ELSE \A i \in 1..Len(op'.ts) :
                /\ op'.ts[i].Source # NoState
                /\ op'.ts[i].Target # NoState
                /\ op'.ts[i].Event # NoEvent

\* C19: AddTransitions panics whenever any transition of the call has an
\* empty source, target or event, and then the table is left exactly as it
\* was before the call: no transition of the call is added or replaced,
\* also not the well-formed ones ahead of the malformed one.
C19_AddTransitionsPanics == [][AddTransitionsPanicStep]_vars

\* C19 happens: a call panicked at its second transition, the first being
\* well-formed, on a table with an entry and room for another.
C19_Witness ==
    /\ op.name = "AddTransitions" /\ op.panic
    /\ op.at = 2
    /\ Len(fsm.transitions) = 1

\* A step that is a call of SendEvent either panics, with the machine left
\* alone and nothing invoked, or was handed a non-empty event.
SendEventPanicStep ==
    (op'.name = "SendEvent") =>
        IF op'.panic
        THEN fsm' = fsm /\ log' = <<>>
        ELSE /\ op'.event # NoEvent
             /\ err'.isNil \/ err'.Event # NoEvent

\* C20: SendEvent with an empty event panics at once: before any table
\* lookup, action or callback, with the current state, the table and the
\* pending chained event unchanged; it never returns a NoTransition error
\* for the empty event.
C20_SendEventPanics == [][SendEventPanicStep]_vars

\* C20 happens: SendEvent panicked on a machine with a current state, a
\* rule and a chained event pending.
C20_Witness ==
    /\ op.name = "SendEvent" /\ op.panic
    /\ Current(fsm) # NoState
    /\ Len(fsm.transitions) > 0
    /\ fsm.event # NoEvent

\* The machine after Reset(), given the rule t again and put into its
\* source, with no callback registered anew.  The rules tried are those of
\* ExampleFSM_SetEvent, which leave and enter both states.
ReusedWith(t) == SetCurrent(AddTransitions(Reset(fsm), <<t>>), t.Source)

\* C21: after Reset the machine is in its just-constructed condition
\* whatever was done before: the table is empty, no per-state enter or exit
\* callback is registered, the current state is empty, and a SendEvent fires
\* no callback registered before the Reset.
C21_Reset ==
    /\ Reset(fsm) = New
    /\ Transitions(Reset(fsm)) = <<>>
    /\ Reset(fsm).exitStates = {} /\ Reset(fsm).enterStates = {}
    /\ Current(Reset(fsm)) = NoState
    /\ \A t \in ExampleRules, data \in SendData :
          \A r \in SendEvent(ReusedWith(t), t.Event, data) :
              Named(r.w.log, CallbackNames) = <<>>

\* C21 happens: a machine with a full table, a current state, a chained
\* event pending and every kind of callback registered is reset.
C21_Witness ==
    /\ Len(fsm.transitions) = MaxTable
    /\ Current(fsm) # NoState
    /\ fsm.event # NoEvent
    /\ fsm.exit /\ fsm.enter /\ fsm.transition
    /\ fsm.exitStates = ExitKeys /\ fsm.enterStates = EnterKeys
    /\ Reset(fsm) = New

\* The position of the first transition of the table with target state.
FirstAsTarget(state) ==
    CHOOSE i \in 1..Len(fsm.transitions) :
        /\ fsm.transitions[i].Target = state
        /\ \A j \in 1..(i - 1) : fsm.transitions[j].Target # state

\* C22: Terminations() returns exactly the states that are the target of
\* some transition of the table and the source of none, each once, in the
\* order in which they first appear as a target; for A--x-->B, B--y-->C it
\* returns C alone.
C22_Terminations ==
    (op.name = "Terminations") =>
        LET got == op.states
            table == fsm.transitions
        IN /\ {got[i] : i \in 1..Len(got)} =
                 {table[i].Target : i \in 1..Len(table)}
                 \ {table[i].Source : i \in 1..Len(table)}
           /\ \A i, j \in 1..Len(got) : got[i] = got[j] => i = j
           /\ \A i, j \in 1..Len(got) :
                 i < j => FirstAsTarget(got[i]) < FirstAsTarget(got[j])
           /\ table = <<NewTransition("A", "B", "x", NilAction),
                        NewTransition("B", "C", "y", NilAction)>>
              => got = <<"C">>

\* C22 happens: the table of the example, A--x-->B, B--y-->C.
C22_Witness ==
    /\ op.name = "Terminations"
    /\ fsm.transitions = <<NewTransition("A", "B", "x", NilAction),
                           NewTransition("B", "C", "y", NilAction)>>
    /\ op.states = <<"C">>

----------------------------------------------------------------------------
(* C23: two concurrent calls of SendEvent *)

\* Both calls have returned.
BothReturned == Concurrent /\ \A p \in Procs : op.pc[p] = "return"

\* What the two calls leave behind: the current state and the two results.
LeftBehind == [current |-> Current(fsm), err |-> err]

\* What they leave behind when the whole call of p runs before that of q.
OneAfterTheOther(p, q) ==
    UNION {
        {[current |-> Current(r2.w.f), err |-> (p :> r1.err) @@ (q :> r2.err)] :
            r2 \in SendEvent(r1.w.f, op.sent[q], SentData)} :
        r1 \in SendEvent(op.start, op.sent[p], SentData)}

Sequential == OneAfterTheOther(1, 2) \cup OneAfterTheOther(2, 1)

\* C23: when the callers serialise SendEvent with a lock of their own, no
\* call clears or takes a chained event that an action set inside the other
\* call, and the current state and the two results left behind are those of
\* one of the two sequential orders of the calls.
C23_SerialisedCallsAreSafe ==
    (Concurrent /\ op.locked) =>
        /\ ~op.stolen
        /\ BothReturned => LeftBehind \in Sequential

\* Without the lock both things happen: a chained event set inside one
\* call is cleared or taken by the other, and what is left behind is the
\* outcome of neither order.
C23_Witness ==
    /\ BothReturned /\ ~op.locked
    /\ op.stolen
    /\ LeftBehind \notin Sequential

----------------------------------------------------------------------------
(* C24: the action of a link *)

\* The invocations of an action in link k, and the place in link k of the
\* first entry with one of the names.
ActionsOf(k) == Named(LinkLog(k), {"action"})

FirstOf(k, names) ==
    CHOOSE i \in 1..Len(LinkLog(k)) :
        /\ LinkLog(k)[i].name \in names
        /\ \A j \in 1..(i - 1) : LinkLog(k)[j].name \notin names

\* C24: in every link of a SendEvent call whose transition has an action,
\* the action is invoked exactly once, with the payload of that link, before
\* every callback of the link and while Current() is still the source of the
\* transition; a link without a matching transition, or whose transition has
\* no action, invokes no action.
C24_ActionOfALink ==
    Returned =>
        \A k \in 1..NumLinks :
            IF Matched(k) /\ RuleOf(k).Action # NilAction
            THEN /\ Len(ActionsOf(k)) = 1
                 /\ ActionsOf(k)[1].a = RuleOf(k).Action
                 /\ ActionsOf(k)[1].b = LinkData(k)
                 /\ ActionsOf(k)[1].cur = RuleOf(k).Source
                 /\ CallbacksOf(k) # <<>> =>
                        FirstOf(k, {"action"}) < FirstOf(k, CallbackNames)
            ELSE ActionsOf(k) = <<>>

\* C24 happens: a call of two links, both with an action and callbacks, the
\* first with the payload sent and the second with the payload chained.
C24_Witness ==
    /\ Returned /\ NumLinks = 2
    /\ Len(ActionsOf(1)) = 1 /\ ActionsOf(1)[1].b \in SendData
    /\ Len(ActionsOf(2)) = 1 /\ ActionsOf(2)[1].b \in ChainData
    /\ CallbacksOf(1) # <<>> /\ CallbacksOf(2) # <<>>
    /\ LinkSource(1) # LinkSource(2)

----------------------------------------------------------------------------
(* C25: the transition applied is the one added last *)

\* The transitions added so far for the pair (source, event), in order.
AddedFor(source, event) ==
    SelectSeq(Added, LAMBDA t : t.Source = source /\ t.Event = event)

\* The trace of a call without the marks of the loop.
Invocations(seq) == Named(seq, CallbackNames \cup {"action", "return"})

\* The last SendEvent on the replace-in-place machine went by transition t,
\* and by no other: it called t's action if t has one and no action
\* otherwise, and went to t's target unless the action refused.
AppliedIn(t, trace, error, current) ==
    /\ Named(trace, {"action"}) =
          IF t.Action = NilAction THEN <<>>
          ELSE <<[link |-> 1, name |-> "action", a |-> t.Action,
                  b |-> op.data, cur |-> t.Source]>>
    /\ \/ error = Nil /\ current = t.Target
       \/ error = TransitionError(op.event, t.Source, t.Target)
          /\ current = t.Source

\* C25: after any sequence of AddTransitions calls, SendEvent without
\* chaining applies the transition added last for (Current(), event), on
\* the replace-in-place table scanned forwards and on the append-only table
\* scanned backwards alike, and applies none when none was added; the two
\* machines have the same current state, the same result and the same
\* invocations after the same operations.
C25_LastAddedApplies ==
    /\ Current(fsm) = Current(OldMachine)
    /\ (Paired /\ Returned) =>
          /\ err = op.err
          /\ Invocations(log) = Invocations(op.log)
          /\ LET added == AddedFor(op.current, op.event)
             IN IF added = <<>>
                THEN /\ err = TransitionError(op.event, NoState, NoState)
                     /\ Current(fsm) = op.current
                     /\ Invocations(log) = <<>>
                ELSE /\ AppliedIn(added[Len(added)], log, err, Current(fsm))
                     /\ AppliedIn(added[Len(added)], op.log, op.err,
                                  Current(op.old))

\* C25 happens: three transitions were added for the pair, with different
\* targets and actions, and SendEvent went by the last of them.
C25_Witness ==
    /\ Paired /\ Returned
    /\ LET added == AddedFor(op.current, op.event)
       IN /\ Len(added) = MaxAdded
          /\ added[1].Target # added[Len(added)].Target
          /\ added[1].Action # added[Len(added)].Action
          /\ added[2] # added[Len(added)]
    /\ err = Nil /\ Current(fsm) # op.current
    /\ Len(fsm.transitions) = 1 /\ Len(op.old.transitions) = MaxAdded

----------------------------------------------------------------------------
(* C26: the current state after an error *)

\* The last link that committed a transition.
LastCommitted == CHOOSE k \in CommittedLinks : \A j \in CommittedLinks : j <= k

\* C26 as claimed: whenever SendEvent returns a non-nil error, Current()
\* after the call is Current() before the call, also when the error comes
\* from a chained link.
C26_ErrorKeepsState ==
    (Returned /\ ~err.isNil) => Current(fsm) = op.current

\* C26: whenever SendEvent returns a non-nil error, the link the error comes
\* from, which is the last one, left Current() as it found it; the links
\* before it that committed stay committed, so that Current() is the target
\* of the last of them, and the state before the call when there is none,
\* as in every call of one link.
C26_ErrorKeepsStateOfLastLink ==
    (Returned /\ ~err.isNil) =>
        /\ ~Committed(NumLinks)
        /\ Current(fsm) = LinkSource(NumLinks)
        /\ Current(fsm) = log[Len(log)].cur
        /\ Current(fsm) = IF CommittedLinks = {} THEN op.current
                          ELSE RuleOf(LastCommitted).Target
        /\ NumLinks = 1 => Current(fsm) = op.current

\* C26 happens: the first link went to another state and chained an event,
\* the second link was suspended by its action.
C26_Witness ==
    /\ Returned /\ ~err.isNil
    /\ NumLinks = 2
    /\ Committed(1)
    /\ Current(fsm) # op.current
    /\ EndedSuspended

----------------------------------------------------------------------------
(* C27: what the error tells about the machine *)

\* C27: whenever SendEvent returns a suspended TransitionError (one with a
\* Source), its Source is Current() at the return, its Event is the event of
\* the last link processed, and the table holds a transition from Source by
\* Event to Target; whenever it returns a TransitionError without Source,
\* its Event is the event of the last link as well and the table holds no
\* transition for (Current(), Event).
C27_ErrorTellsTheTable ==
    (Returned /\ ~err.isNil) =>
        /\ err.Event = LinkEvent(NumLinks)
        /\ IF err.Source # NoState
           THEN /\ err.Source = Current(fsm)
                /\ \E i \in 1..Len(Transitions(fsm)) :
                      /\ Transitions(fsm)[i].Source = err.Source
                      /\ Transitions(fsm)[i].Event = err.Event
                      /\ Transitions(fsm)[i].Target = err.Target
                      /\ Transitions(fsm)[i].Action # NilAction
           ELSE /\ err.Target = NoState
                /\ ~TestEvent([f |-> fsm], err.Event).ok
                /\ \A i \in 1..Len(Transitions(fsm)) :
                      ~(/\ Transitions(fsm)[i].Source = Current(fsm)
                        /\ Transitions(fsm)[i].Event = err.Event)

\* C27 happens: a chained link was suspended, in another state and for
\* another event than those of the call, by a transition to another state.
C27_Witness ==
    /\ Returned /\ ~err.isNil
    /\ NumLinks = 2
    /\ err.Source # NoState
    /\ err.Source # op.current /\ err.Event # op.event
    /\ err.Target # err.Source
    /\ Len(Transitions(fsm)) = MaxTable

----------------------------------------------------------------------------
(* C28: the current state stays set *)

\* The targets of the transitions of the table.
TargetsOf(f) == {Transitions(f)[i].Target : i \in 1..Len(Transitions(f))}

\* The step is a call of Reset.
ResetStep == fsm' = Reset(fsm) /\ op' = Called("call")

\* The step is a call of SetCurrent with the state it leaves as current.
SetCurrentStep ==
    /\ Current(fsm') # NoState
    /\ fsm' = SetCurrent(fsm, Current(fsm'))
    /\ op' = Called("call")

\* C28: once Current() is not empty, no call but Reset makes it empty:
\* not AddTransitions, a registration of a callback, SetEvent, TestEvent,
\* SendEvent with or without chaining, or SetCurrent, whether the call
\* returns or panics.  And Current() only changes to a state given to
\* SetCurrent or, in SendEvent, to the target of a transition of the table.
C28_CurrentStaysSet ==
    [][/\ (Current(fsm) # NoState /\ Current(fsm') = NoState) => ResetStep
       /\ (Current(fsm') # Current(fsm) /\ Current(fsm') # NoState) =>
             \/ SetCurrentStep
             \/ /\ Returned'
                /\ Current(fsm') \in TargetsOf(fsm)
                /\ Transitions(fsm') = Transitions(fsm)
       /\ op'.panic => Current(fsm') = Current(fsm)
      ]_vars

\* C28 happens: with a current state set, a SendEvent of two links went to
\* another state and ended with an error there.
C28_Witness ==
    /\ Returned /\ ~err.isNil
    /\ op.current # NoState
    /\ NumLinks = 2
    /\ Current(fsm) # op.current
    /\ Current(fsm) \in TargetsOf(fsm)
    /\ EndedWithNoTransition

----------------------------------------------------------------------------
(* C29: a termination state is absorbing *)

\* Current() is one of the states Terminations() lists.
InTermination == hasState(Terminations(fsm), Current(fsm))

\* The step is a call of SetCurrent that changes the current state.
SetsAnotherCurrent == SetCurrentStep /\ Current(fsm') # Current(fsm)

\* C29: while Current() is a state listed by Terminations(), TestEvent is
\* false for every event and every SendEvent of a non-empty event returns
\* the error of no transition, invokes no action and no callback and leaves
\* Current() alone; and every step that does not change the table and is
\* not a SetCurrent to another state leaves the machine in that termination
\* state, the SendEvent and TestEvent steps with those results.
C29_TerminationAbsorbs ==
    [][InTermination =>
        /\ \A event \in Events \cup {NoEvent} :
              ~TestEvent([f |-> fsm], event).ok
        /\ \A event \in Events, data \in SendData :
              /\ SendEvent(fsm, event, data) # {}
              /\ \A r \in SendEvent(fsm, event, data) :
                    /\ r.err = TransitionError(event, NoState, NoState)
                    /\ NamesOf(r.w.log) = <<"link">>
                    /\ Current(r.w.f) = Current(fsm)
        /\ (Transitions(fsm') = Transitions(fsm) /\ ~SetsAnotherCurrent) =>
              /\ Current(fsm') = Current(fsm)
              /\ InTermination'
              /\ Returned' =>
                    /\ err' = TransitionError(op'.event, NoState, NoState)
                    /\ NamesOf(log') = <<"link">>
              /\ (op'.name = "TestEvent" /\ ~op'.panic) => ~op'.ok
      ]_vars

\* C29 happens: SendEvent has just returned on a machine in a termination
\* state that a transition with an action leads to and that has callbacks
\* registered; the event sent is one that another state has a rule for.
C29_Witness ==
    /\ Returned /\ InTermination
    /\ op.current = Current(fsm)
    /\ fsm.transition /\ fsm.exitStates # {}
    /\ \E i \in 1..Len(Transitions(fsm)) :
          /\ Transitions(fsm)[i].Target = Current(fsm)
          /\ Transitions(fsm)[i].Action # NilAction
          /\ Transitions(fsm)[i].Event = op.event
    /\ err = TransitionError(op.event, NoState, NoState)

====
